---- MODULE Spec2Model ----
(***************************************************************************)
(* Model of the search-and-replace overlay of                              *)
(* datahub/webapp/components/SearchAndReplace/SearchAndReplace.tsx:        *)
(* the useSearchAndReplace hook (search state, its updaters, the effect    *)
(* that re-runs the search) and the SearchAndReplace component (overlay    *)
(* visibility, key handling, imperative handle).                           *)
(*                                                                         *)
(* One action is one event of the single UI thread: a handler runs, its    *)
(* state updaters are applied and the component re-renders.  The effect of *)
(* useEffect runs as the next step after a render in which one of its      *)
(* dependencies changed; no other handler runs before it.  The promise     *)
(* returned by jumpToResult resolves in a later step of its own.           *)
(***************************************************************************)
EXTENDS Integers, Sequences, FiniteSets, TLC

\* ---------------------------------------------------------------- bounds
MaxResults == 3      \* longest result list the host search returns
MaxPending == 1      \* navigations that may be outstanding at once
MaxDelta   == 3      \* largest step moveResultIndex is given

\* ------------------------------------------------------- input alphabets
SearchStrings  == {"", "foo"}
ReplaceStrings == {"", "bar"}
SearchOptions  == [matchCase : BOOLEAN, useRegex : BOOLEAN]
\* The options the bar passes: a new object, equal to the initial options or not.
OptionInputs   == {[matchCase |-> m, useRegex |-> FALSE] : m \in BOOLEAN}
Keys           == {"Cmd-F", "esc", "x"}
UnitDeltas     == {-1, 1}
Deltas         == (0 - MaxDelta) .. MaxDelta

\* Match records are opaque to the component: a match is identified by its
\* position in the host's document, 1..MaxResults.  Undefined is what
\* JavaScript yields for an array read outside the array.
Undefined == 0
Matches   == 1 .. MaxResults

\* The matches first .. last, in document order.
Run(first, last) == [i \in 1 .. (last - first + 1) |-> first + i - 1]

\* What getSearchResults may return: no match, or a run of consecutive matches.
ResultLists ==
    {<<>>} \cup {Run(first, last) : first \in Matches, last \in Matches}

\* searchResults[i] with JavaScript's 0-based indexing.
At(list, i) == IF i + 1 \in DOMAIN list THEN list[i + 1] ELSE Undefined

\* JavaScript's % : the result takes the sign of the dividend.
JsRem(a, b) == IF a >= 0 THEN a % b ELSE 0 - ((0 - a) % b)

\* --------------------------------------------------------------- state
VARIABLES
    searchState,            \* useState(initialSearchState)
    optionsRef,             \* which object searchState.searchOptions is
    showSearchAndReplace,   \* useState(false)
    effectPending,          \* a dependency of useEffect changed in the last render
    pending,                \* unresolved jumpToResult promises, by continuation
    hasJump,                \* the host supplied the optional jumpToResult prop
    status,                 \* "mounted", or "crashed" after an uncaught throw
    op,                     \* the operation the last step performed
    calls,                  \* the calls that operation made, in order
    moveRun,                \* consecutive moveResultIndex(1) calls so far
    showSelect,             \* CreateDataTableTag: useState(false)
    tags,                   \* CreateDataTableTag: the names of the tags prop
    tableId,                \* CreateDataTableTag: the tableId prop
    creating                \* creation requests dispatched and not yet settled

\* The state of the tag creator, which the search overlay never touches.
tagVars == <<showSelect, tags, tableId, creating>>

vars == <<searchState, optionsRef, showSearchAndReplace, effectPending, pending,
          hasJump, status, op, calls, moveRun, tagVars>>

initialSearchState ==
    [searchString |-> "",
     replaceString |-> "",
     searchResults |-> <<>>,
     currentSearchResultIndex |-> 0,
     searchOptions |-> [matchCase |-> FALSE, useRegex |-> FALSE]]

Continuations == {"focusSearchBar", "resolve"}
NoPending     == [c \in Continuations |-> 0]
PendingCount  == pending["focusSearchBar"] + pending["resolve"]
AddPending(c) == IF c = "none" THEN pending ELSE [pending EXCEPT ![c] = @ + 1]

Call(fn, args) == [fn |-> fn, args |-> args]
CallsOf(fn)    == SelectSeq(calls, LAMBDA c : c.fn = fn)

\* The run of consecutive moveResultIndex(1) calls starts afresh at index i.
NewRun(i) == [start |-> i, n |-> 0]

Init ==
    /\ searchState = initialSearchState
    /\ optionsRef = "initial"
    /\ showSearchAndReplace = FALSE
    /\ effectPending = TRUE
    /\ pending = NoPending
    /\ hasJump \in BOOLEAN
    /\ status = "mounted"
    /\ op = [name |-> "mount", arg |-> <<>>]
    /\ calls = <<>>
    /\ moveRun = NewRun(0)
    /\ showSelect = FALSE
    /\ tags = {}
    /\ tableId = 1
    /\ creating = <<>>

\* ------------------------------------------------------- focusSearchBar
\* searchBarRef.current?.focus(): the ref is set only while the bar is rendered.
focusSearchBar ==
    <<Call("focusSearchBar", <<>>)>>
        \o (IF showSearchAndReplace THEN <<Call("SearchAndReplaceBar.focus", <<>>)>> ELSE <<>>)

\* ------------------------------------------------- the state updaters
\* performSearchUpdater returning focus to the bar without awaiting the navigation.
performSearchUpdater_focusNow(old, isActiveSearch, results) ==
    LET search == [fn |-> "getSearchResults",
                   args |-> <<old.searchString, old.searchOptions>>,
                   ret |-> results]
        jump   == Call("jumpToResult", <<At(results, old.currentSearchResultIndex)>>)
    IN  IF isActiveSearch /\ ~hasJump
        THEN [state |-> old, calls |-> <<search>>, cont |-> "none", throws |-> TRUE]
        ELSE [state  |-> [old EXCEPT !.searchResults = results],
              calls  |-> IF isActiveSearch THEN <<search, jump>> \o focusSearchBar
                         ELSE <<search>>,
              cont   |-> "none",
              throws |-> FALSE]

\* The updater of performSearch.  results is what the host's getSearchResults
\* returns for the query and the options of the old state.  Calling the
\* absent jumpToResult throws, and the updater returns nothing.
performSearchUpdater(old, isActiveSearch, results) ==
    LET search == [fn |-> "getSearchResults",
                   args |-> <<old.searchString, old.searchOptions>>,
                   ret |-> results]
        jump   == Call("jumpToResult", <<At(results, old.currentSearchResultIndex)>>)
    IN  IF isActiveSearch /\ ~hasJump
        THEN [state |-> old, calls |-> <<search>>, cont |-> "none", throws |-> TRUE]
        ELSE [state  |-> [old EXCEPT !.searchResults = results],
              calls  |-> IF isActiveSearch THEN <<search, jump>> ELSE <<search>>,
              cont   |-> IF isActiveSearch THEN "focusSearchBar" ELSE "none",
              throws |-> FALSE]

\* NewIndex stopping at the ends of the list instead of wrapping around.
NewIndex_clamped(currIndex, delta, resultLen) ==
    LET newIndex == currIndex + delta
    IN  IF newIndex < 0 THEN 0
        ELSE IF newIndex >= resultLen THEN resultLen - 1
        ELSE newIndex

\* NewIndex without the adjustment of a negative sum.
NewIndex_unadjusted(currIndex, delta, resultLen) ==
    JsRem(currIndex + delta, resultLen)

\* Clip new index to be between [0, searchState.searchResults.length)
NewIndex(currIndex, delta, resultLen) ==
    LET newIndex == currIndex + delta
    IN  JsRem(IF newIndex < 0 THEN newIndex + resultLen ELSE newIndex, resultLen)

\* moveResultIndexUpdater without the early return for an empty list.
moveResultIndexUpdater_noEmptyCheck(old, delta) ==
    LET resultLen == Len(old.searchResults)
        newIndex  == IF resultLen = 0 THEN 0
                     ELSE NewIndex(old.currentSearchResultIndex, delta, resultLen)
    IN  [state |-> [old EXCEPT !.currentSearchResultIndex = newIndex],
         calls |-> IF hasJump
                   THEN <<Call("jumpToResult", <<At(old.searchResults, newIndex)>>)>>
                   ELSE <<Call("resolve", <<>>)>>,
         cont  |-> IF hasJump THEN "resolve" ELSE "none"]

\* moveResultIndexUpdater resolving without awaiting the navigation.
moveResultIndexUpdater_resolvesEarly(old, delta) ==
    LET resultLen == Len(old.searchResults)
        newIndex  == NewIndex(old.currentSearchResultIndex, delta, resultLen)
    IN  IF resultLen = 0
        THEN [state |-> old, calls |-> <<Call("resolve", <<>>)>>, cont |-> "none"]
        ELSE [state |-> [old EXCEPT !.currentSearchResultIndex = newIndex],
              calls |-> IF hasJump
                        THEN <<Call("jumpToResult", <<At(old.searchResults, newIndex)>>),
                               Call("resolve", <<>>)>>
                        ELSE <<Call("resolve", <<>>)>>,
              cont  |-> "none"]

\* The updater of moveResultIndex, with the promise it settles.
moveResultIndexUpdater(old, delta) ==
    LET resultLen == Len(old.searchResults)
        newIndex  == NewIndex(old.currentSearchResultIndex, delta, resultLen)
    IN  IF resultLen = 0
        THEN [state |-> old, calls |-> <<Call("resolve", <<>>)>>, cont |-> "none"]
        ELSE [state |-> [old EXCEPT !.currentSearchResultIndex = newIndex],
              calls |-> IF hasJump
                        THEN <<Call("jumpToResult", <<At(old.searchResults, newIndex)>>)>>
                        ELSE <<Call("resolve", <<>>)>>,
              cont  |-> IF hasJump THEN "resolve" ELSE "none"]

\* onReplaceResult that never moves past the last item.
onReplaceResult_noMove(old, all) ==
    IF all
    THEN [state |-> old,
          calls |-> <<Call("replace", <<old.searchResults, old.replaceString>>)>>,
          cont  |-> "none"]
    ELSE [state |-> old,
          calls |-> <<Call("replace",
                           <<<<At(old.searchResults, old.currentSearchResultIndex)>>,
                             old.replaceString>>)>>,
          cont  |-> "none"]

\* onReplaceResult that moves past the last item after replacing all, too.
onReplaceResult_allMoves(old, all) ==
    LET targets == IF all THEN old.searchResults
                   ELSE <<At(old.searchResults, old.currentSearchResultIndex)>>
        move    == moveResultIndexUpdater(old, 1)
    IN  IF old.currentSearchResultIndex = Len(old.searchResults) - 1
        THEN [state |-> move.state,
              calls |-> <<Call("replace", <<targets, old.replaceString>>)>> \o move.calls,
              cont  |-> move.cont]
        ELSE [state |-> old,
              calls |-> <<Call("replace", <<targets, old.replaceString>>)>>,
              cont  |-> "none"]

\* onReplace, as a value: the replace call, then the move past the last item.
onReplaceResult(old, all) ==
    IF all
    THEN [state |-> old,
          calls |-> <<Call("replace", <<old.searchResults, old.replaceString>>)>>,
          cont  |-> "none"]
    ELSE LET one  == Call("replace",
                          <<<<At(old.searchResults, old.currentSearchResultIndex)>>,
                            old.replaceString>>)
             move == moveResultIndexUpdater(old, 1)
         IN  IF old.currentSearchResultIndex = Len(old.searchResults) - 1
             THEN [state |-> move.state, calls |-> <<one>> \o move.calls, cont |-> move.cont]
             ELSE [state |-> old, calls |-> <<one>>, cont |-> "none"]

\* matchKeyPress(evt, keyString) of lib/utils/keyboard: the event is the combination.
matchKeyPress(evt, keyString) == evt = keyString

\* ---------------------------------------------------------- the actions
\* A handler runs only on a mounted component whose effects have been flushed.
Idle == status = "mounted" /\ ~effectPending

\* A step may start a navigation only while there is room to track it.
Room(cont) == cont = "none" \/ PendingCount < MaxPending

\* reset that keeps the replacement text.
reset_keepsReplaceString ==
    /\ Idle
    /\ searchState' = [initialSearchState EXCEPT !.replaceString = searchState.replaceString]
    /\ optionsRef' = "initial"
    /\ effectPending' = (searchState.searchString # initialSearchState.searchString
                            \/ optionsRef # "initial")
    /\ op' = [name |-> "reset", arg |-> <<>>]
    /\ calls' = <<>>
    /\ moveRun' = NewRun(searchState'.currentSearchResultIndex)
    /\ UNCHANGED <<tagVars, showSearchAndReplace, pending, hasJump, status>>

\* reset that also dismisses the overlay.
reset_hides ==
    /\ Idle
    /\ searchState' = initialSearchState
    /\ optionsRef' = "initial"
    /\ effectPending' = (searchState.searchString # initialSearchState.searchString
                            \/ optionsRef # "initial")
    /\ showSearchAndReplace' = FALSE
    /\ op' = [name |-> "reset", arg |-> <<>>]
    /\ calls' = <<>>
    /\ moveRun' = NewRun(searchState'.currentSearchResultIndex)
    /\ UNCHANGED <<tagVars, pending, hasJump, status>>

reset ==
    /\ Idle
    /\ searchState' = initialSearchState
    /\ optionsRef' = "initial"
    /\ effectPending' = (searchState.searchString # initialSearchState.searchString
                            \/ optionsRef # "initial")
    /\ op' = [name |-> "reset", arg |-> <<>>]
    /\ calls' = <<>>
    /\ moveRun' = NewRun(searchState'.currentSearchResultIndex)
    /\ UNCHANGED <<tagVars, showSearchAndReplace, pending, hasJump, status>>

\* The body of performSearch: one state update, which may throw.
runSearch(name, isActiveSearch, results) ==
    LET r == performSearchUpdater(searchState, isActiveSearch, results)
    IN  /\ Room(r.cont)
        /\ searchState' = r.state
        /\ calls' = r.calls
        /\ pending' = AddPending(r.cont)
        /\ status' = IF r.throws THEN "crashed" ELSE status
        /\ effectPending' = FALSE
        /\ op' = [name |-> name, arg |-> <<isActiveSearch>>]
        /\ moveRun' = NewRun(searchState'.currentSearchResultIndex)
        /\ UNCHANGED <<tagVars, optionsRef, showSearchAndReplace, hasJump>>

\* The imperative handle's performSearch(isActiveSearch), called by the host.
performSearch(isActiveSearch) ==
    /\ Idle
    /\ \E results \in ResultLists : runSearch("performSearch", isActiveSearch, results)

\* The effect performing a passive search.
effectSearch_passive(results) == runSearch("useEffect", FALSE, results)

\* The search the effect performs.
effectSearch(results) == runSearch("useEffect", TRUE, results)

\* useEffect(() => performSearch(true), [searchString, searchOptions])
useEffect ==
    /\ status = "mounted"
    /\ effectPending
    /\ \E results \in ResultLists : effectSearch(results)

onSearchStringChange(searchString) ==
    /\ Idle
    /\ showSearchAndReplace
    /\ searchState' = [searchState EXCEPT !.searchString = searchString,
                                          !.currentSearchResultIndex = 0]
    /\ effectPending' = (searchString # searchState.searchString)
    /\ op' = [name |-> "onSearchStringChange", arg |-> <<searchString>>]
    /\ calls' = <<>>
    /\ moveRun' = NewRun(searchState'.currentSearchResultIndex)
    /\ UNCHANGED <<tagVars, optionsRef, showSearchAndReplace, pending, hasJump, status>>

\* The bar passes a new options object, so the effect's dependency changes.
onSearchOptionsChange(searchOptions) ==
    /\ Idle
    /\ showSearchAndReplace
    /\ searchState' = [searchState EXCEPT !.searchOptions = searchOptions,
                                          !.currentSearchResultIndex = 0]
    /\ optionsRef' = "passed"
    /\ effectPending' = TRUE
    /\ op' = [name |-> "onSearchOptionsChange", arg |-> <<searchOptions>>]
    /\ calls' = <<>>
    /\ moveRun' = NewRun(searchState'.currentSearchResultIndex)
    /\ UNCHANGED <<tagVars, showSearchAndReplace, pending, hasJump, status>>

onReplaceStringChange(replaceString) ==
    /\ Idle
    /\ showSearchAndReplace
    /\ searchState' = [searchState EXCEPT !.replaceString = replaceString]
    /\ op' = [name |-> "onReplaceStringChange", arg |-> <<replaceString>>]
    /\ calls' = <<>>
    /\ moveRun' = NewRun(searchState'.currentSearchResultIndex)
    /\ UNCHANGED <<tagVars, optionsRef, showSearchAndReplace, effectPending, pending, hasJump, status>>

moveResultIndex(delta) ==
    LET r == moveResultIndexUpdater(searchState, delta)
    IN  /\ Idle
        /\ showSearchAndReplace
        /\ Room(r.cont)
        /\ searchState' = r.state
        /\ calls' = r.calls
        /\ pending' = AddPending(r.cont)
        /\ op' = [name |-> "moveResultIndex", arg |-> <<delta>>]
        /\ moveRun' = IF delta = 1
                      THEN [moveRun EXCEPT !.n = IF @ > MaxResults THEN @ ELSE @ + 1]
                      ELSE NewRun(searchState'.currentSearchResultIndex)
        /\ UNCHANGED <<tagVars, optionsRef, showSearchAndReplace, effectPending, hasJump, status>>

onReplace(all) ==
    LET r == onReplaceResult(searchState, all)
    IN  /\ Idle
        /\ showSearchAndReplace
        /\ Room(r.cont)
        /\ searchState' = r.state
        /\ calls' = r.calls
        /\ pending' = AddPending(r.cont)
        /\ op' = [name |-> "onReplace", arg |-> <<all>>]
        /\ moveRun' = NewRun(searchState'.currentSearchResultIndex)
        /\ UNCHANGED <<tagVars, optionsRef, showSearchAndReplace, effectPending, hasJump, status>>

\* onKeyDown whose search combination closes the bar when it is open.
onKeyDown_toggle(evt) ==
    LET search  == matchKeyPress(evt, "Cmd-F")
        escape  == ~search /\ showSearchAndReplace /\ matchKeyPress(evt, "esc")
        handled == search \/ escape
    IN  /\ Idle
        /\ showSearchAndReplace' = IF search THEN ~showSearchAndReplace
                                   ELSE IF escape THEN FALSE
                                   ELSE showSearchAndReplace
        /\ calls' = (IF search /\ showSearchAndReplace THEN focusSearchBar ELSE <<>>)
                        \o (IF handled
                            THEN <<Call("stopPropagation", <<>>), Call("preventDefault", <<>>)>>
                            ELSE <<>>)
        /\ op' = [name |-> "onKeyDown", arg |-> <<evt>>]
        /\ moveRun' = NewRun(searchState.currentSearchResultIndex)
        /\ UNCHANGED <<tagVars, searchState, optionsRef, effectPending, pending, hasJump, status>>

\* onKeyDown that swallows the escape combination while the bar is hidden, too.
onKeyDown_swallowsEscape(evt) ==
    LET search  == matchKeyPress(evt, "Cmd-F")
        escape  == ~search /\ matchKeyPress(evt, "esc")
        handled == search \/ escape
    IN  /\ Idle
        /\ showSearchAndReplace' = IF search THEN TRUE
                                   ELSE IF escape THEN FALSE
                                   ELSE showSearchAndReplace
        /\ calls' = (IF search /\ showSearchAndReplace THEN focusSearchBar ELSE <<>>)
                        \o (IF handled
                            THEN <<Call("stopPropagation", <<>>), Call("preventDefault", <<>>)>>
                            ELSE <<>>)
        /\ op' = [name |-> "onKeyDown", arg |-> <<evt>>]
        /\ moveRun' = NewRun(searchState.currentSearchResultIndex)
        /\ UNCHANGED <<tagVars, searchState, optionsRef, effectPending, pending, hasJump, status>>

\* The window's keydown listener; it runs whether or not the bar is shown.
onKeyDown(evt) ==
    LET search  == matchKeyPress(evt, "Cmd-F")
        escape  == ~search /\ showSearchAndReplace /\ matchKeyPress(evt, "esc")
        handled == search \/ escape
    IN  /\ Idle
        /\ showSearchAndReplace' = IF search THEN TRUE
                                   ELSE IF escape THEN FALSE
                                   ELSE showSearchAndReplace
        /\ calls' = (IF search /\ showSearchAndReplace THEN focusSearchBar ELSE <<>>)
                        \o (IF handled
                            THEN <<Call("stopPropagation", <<>>), Call("preventDefault", <<>>)>>
                            ELSE <<>>)
        /\ op' = [name |-> "onKeyDown", arg |-> <<evt>>]
        /\ moveRun' = NewRun(searchState.currentSearchResultIndex)
        /\ UNCHANGED <<tagVars, searchState, optionsRef, effectPending, pending, hasJump, status>>

\* onHide={() => setShowSearchAndReplace(false)}, the bar's hide control.
onHide ==
    /\ Idle
    /\ showSearchAndReplace
    /\ showSearchAndReplace' = FALSE
    /\ op' = [name |-> "onHide", arg |-> <<>>]
    /\ calls' = <<>>
    /\ moveRun' = NewRun(searchState.currentSearchResultIndex)
    /\ UNCHANGED <<tagVars, searchState, optionsRef, effectPending, pending, hasJump, status>>

\* A promise returned by jumpToResult resolves and its .then callback runs.
jumpResolved(cont) ==
    /\ status = "mounted"
    /\ pending[cont] > 0
    /\ pending' = [pending EXCEPT ![cont] = @ - 1]
    /\ calls' = IF cont = "focusSearchBar" THEN focusSearchBar ELSE <<Call("resolve", <<>>)>>
    /\ op' = [name |-> "then", arg |-> <<cont>>]
    /\ UNCHANGED <<tagVars, searchState, optionsRef, showSearchAndReplace, effectPending,
                   hasJump, status, moveRun>>

\* Every step but the bar's navigation buttons.
OtherSteps ==
    \/ useEffect
    \/ reset
    \/ \E isActiveSearch \in BOOLEAN : performSearch(isActiveSearch)
    \/ \E searchString \in SearchStrings : onSearchStringChange(searchString)
    \/ \E searchOptions \in OptionInputs : onSearchOptionsChange(searchOptions)
    \/ \E replaceString \in ReplaceStrings : onReplaceStringChange(replaceString)
    \/ \E all \in BOOLEAN : onReplace(all)
    \/ \E evt \in Keys : onKeyDown(evt)
    \/ onHide
    \/ \E cont \in Continuations : jumpResolved(cont)

\* The bar moves one result forward or backward.
Next ==
    \/ OtherSteps
    \/ \E delta \in UnitDeltas : moveResultIndex(delta)

Spec == Init /\ [][Next]_vars

\* moveResultIndex takes a number: any caller of the hook may pass any delta.
NextAnyDelta ==
    \/ OtherSteps
    \/ \E delta \in Deltas : moveResultIndex(delta)

SpecAnyDelta == Init /\ [][NextAnyDelta]_vars

TypeOK ==
    /\ searchState.searchString \in SearchStrings
    /\ searchState.replaceString \in ReplaceStrings
    /\ searchState.searchResults \in ResultLists
    /\ searchState.currentSearchResultIndex \in Int
    /\ searchState.searchOptions \in SearchOptions
    /\ optionsRef \in {"initial", "passed"}
    /\ showSearchAndReplace \in BOOLEAN
    /\ effectPending \in BOOLEAN
    /\ PendingCount <= MaxPending
    /\ status \in {"mounted", "crashed"}

\* ---------------------------------------------------- the tag creator
\* Model of the CreateDataTableTag widget.  It shares no state with the search
\* overlay; op and calls record its operations in its own specifications.
MaxRuns      == 2     \* runs of equal characters in a candidate tag
MaxCreating  == 2     \* creation requests that may be outstanding at once
MinTagLength == 1     \* {1,255} of the validator's pattern
MaxTagLength == 255

\* A string is the sequence of its runs <<character, length>>; adjacent runs
\* have different characters, so equal strings are equal sequences.
TagChars   == {"a", "A", "7", "-"}
RunLengths == {1, 254, 255}
Runs       == TagChars \X RunLengths

RECURSIVE StringsOfRuns(_)
StringsOfRuns(k) ==
    IF k = 0 THEN {<<>>}
    ELSE LET shorter == StringsOfRuns(k - 1)
             longest == {t \in shorter : Len(t) = k - 1}
         IN  shorter \cup
             {Append(p[1], p[2]) :
                 p \in {q \in longest \X Runs :
                           Len(q[1]) = 0 \/ q[1][Len(q[1])][1] # q[2][1]}}

\* The texts typed into the tag input.
Candidates == StringsOfRuns(MaxRuns)

Str(ch) == <<<<ch, 1>>>>

\* val.length
RECURSIVE StrLen(_)
StrLen(val) == IF val = <<>> THEN 0 ELSE val[1][2] + StrLen(Tail(val))

\* The tag lists the widget may be given, and the tables it may belong to.
ExistingTagSets == SUBSET {Str("a"), Str("A")}
TableIds        == {1, 2}
\* The tags the select submits.
SubmittedTags   == {Str("a"), Str("A"), Str("7")}
Outcomes        == {"fulfilled", "rejected"}

\* Everything of the search overlay, which the tag creator never touches.
searchVars == <<searchState, optionsRef, showSearchAndReplace, effectPending,
                pending, hasJump, status, moveRun>>

\* The widget on its first render, next to an overlay that is left alone.
InitTag ==
    /\ searchState = initialSearchState
    /\ optionsRef = "initial"
    /\ showSearchAndReplace = FALSE
    /\ effectPending = TRUE
    /\ pending = NoPending
    /\ hasJump = TRUE
    /\ status = "mounted"
    /\ op = [name |-> "mount", arg |-> <<>>]
    /\ calls = <<>>
    /\ moveRun = NewRun(0)
    /\ showSelect = FALSE
    /\ tags \in ExistingTagSets
    /\ tableId \in TableIds
    /\ creating = <<>>

\* (tags || []).map((tag) => tag.name)
existingTags == tags

\* The canonical form the i flag compares characters in.
Canonicalize(ch) == IF ch = "a" THEN "A" ELSE ch

\* The characters of the class [a-z0-9] among TagChars.
ClassChars == {"a", "7"}

\* The pattern without the i flag.
RegexMatch_noIFlag(val) ==
    /\ StrLen(val) >= MinTagLength
    /\ StrLen(val) <= MaxTagLength
    /\ \A i \in 1 .. Len(val) : val[i][1] \in ClassChars

\* val.match(/^[a-z0-9]{1,255}$/i)
RegexMatch(val) ==
    /\ StrLen(val) >= MinTagLength
    /\ StrLen(val) <= MaxTagLength
    /\ \A i \in 1 .. Len(val) :
          \E c \in ClassChars : Canonicalize(c) = Canonicalize(val[i][1])

isValidCheck(val) == RegexMatch(val) /\ val \notin existingTags

\* The add button: onClick={() => setShowSelect(true)}
onClick ==
    /\ ~showSelect
    /\ showSelect' = TRUE
    /\ op' = [name |-> "onClick", arg |-> <<>>]
    /\ calls' = <<>>
    /\ UNCHANGED <<searchVars, tags, tableId, creating>>

\* The select asks the validator about the text in the input.
checkInput(val) ==
    /\ showSelect
    /\ op' = [name |-> "isValidCheck", arg |-> <<val>>]
    /\ calls' = <<Call("return", <<isValidCheck(val)>>)>>
    /\ UNCHANGED <<searchVars, tagVars>>

\* createTag(val).finally(...): one request is dispatched.
handleCreateTag(val) ==
    /\ showSelect
    /\ Len(creating) < MaxCreating
    /\ creating' = Append(creating, <<tableId, val>>)
    /\ op' = [name |-> "handleCreateTag", arg |-> <<val>>]
    /\ calls' = <<Call("createTableTag", <<tableId, val>>)>>
    /\ UNCHANGED <<searchVars, showSelect, tags, tableId>>

\* onSelect={handleCreateTag}: the select submits a text its validator accepts.
onSelect(val) ==
    /\ isValidCheck(val)
    /\ handleCreateTag(val)

\* The completion handler attached with .then instead of .finally.
createSettled_onlyOnSuccess(i, outcome) ==
    /\ i \in 1 .. Len(creating)
    /\ creating' = [k \in 1 .. Len(creating) - 1 |->
                       IF k < i THEN creating[k] ELSE creating[k + 1]]
    /\ showSelect' = IF outcome = "fulfilled" THEN FALSE ELSE showSelect
    /\ op' = [name |-> "finally", arg |-> <<outcome, creating[i]>>]
    /\ calls' = <<>>
    /\ UNCHANGED <<searchVars, tags, tableId>>

\* A creation request settles: .finally(() => setShowSelect(false))
createSettled(i, outcome) ==
    /\ i \in 1 .. Len(creating)
    /\ creating' = [k \in 1 .. Len(creating) - 1 |->
                       IF k < i THEN creating[k] ELSE creating[k + 1]]
    /\ showSelect' = FALSE
    /\ op' = [name |-> "finally", arg |-> <<outcome, creating[i]>>]
    /\ calls' = <<>>
    /\ UNCHANGED <<searchVars, tags, tableId>>

\* The widget creating tags.
NextTag ==
    \/ onClick
    \/ \E val \in SubmittedTags : onSelect(val)
    \/ \E i \in 1 .. MaxCreating + 1, outcome \in Outcomes : createSettled(i, outcome)

SpecTag == InitTag /\ [][NextTag]_vars

\* The widget validating what is typed.
NextValidator ==
    \/ onClick
    \/ \E val \in Candidates : checkInput(val)

\* The validator does not depend on the table.
InitValidator == InitTag /\ tableId = 1

SpecValidator == InitValidator /\ [][NextValidator]_vars

\* ------------------------------------------------------- the properties
Index     == searchState.currentSearchResultIndex
ResultLen == Len(searchState.searchResults)
Jumps     == CallsOf("jumpToResult")
Searches  == CallsOf("getSearchResults")
Replaces  == CallsOf("replace")

\* The documented initial values, written out.
DocumentedInitialState ==
    [searchString |-> "",
     replaceString |-> "",
     searchResults |-> <<>>,
     currentSearchResultIndex |-> 0,
     searchOptions |-> [matchCase |-> FALSE, useRegex |-> FALSE]]

\* The step changes searchString or searchOptions through the bar.
QueryChanges ==
    \/ op'.name = "onSearchStringChange" /\ op'.arg[1] # searchState.searchString
    \/ op'.name = "onSearchOptionsChange"

\* The step is the effect's search, other than the one at mount.
EffectRuns == effectPending /\ op.name # "mount" /\ op'.name = "useEffect"

\* The effect's search recomputes searchResults, once, from the query and options.
EffectRecomputes ==
    /\ ~effectPending'
    /\ Len(Searches') = 1
    /\ Searches'[1].args = <<searchState.searchString, searchState.searchOptions>>
    /\ searchState' = [searchState EXCEPT !.searchResults = Searches'[1].ret]

\* C1: in every reachable state 0 <= currentSearchResultIndex < max(1, length
\* of searchResults).
C1_IndexInRange ==
    /\ 0 <= Index
    /\ Index < (IF ResultLen > 1 THEN ResultLen ELSE 1)

\* C2, as stated: a change of searchString or searchOptions sets the index to 0
\* and is followed by exactly one search, in which jumpToResult is not invoked.
C2_ChangeThenPassiveSearch ==
    [][/\ QueryChanges => (Index' = 0 /\ effectPending')
       /\ effectPending => op'.name \in {"useEffect", "then"}
       /\ EffectRuns => (EffectRecomputes /\ Len(Jumps') = 0)]_vars

\* C2, amended: a change of searchString or searchOptions sets the index to 0
\* and is followed by exactly one search, which is active: searchResults is
\* recomputed once from the new query and options and jumpToResult is invoked
\* once, with the entry of the new list at the current index.
C2_ChangeThenActiveSearch ==
    [][/\ QueryChanges => (Index' = 0 /\ effectPending')
       /\ effectPending => op'.name \in {"useEffect", "then"}
       /\ EffectRuns =>
            /\ EffectRecomputes
            /\ Len(Jumps') = 1
            /\ Jumps'[1].args = <<At(searchState'.searchResults, Index)>>
            /\ pending'["focusSearchBar"] = pending["focusSearchBar"] + 1]_vars

\* A query change has been followed by the effect's search, which navigated
\* to the first of several results.
C2_Witness ==
    /\ op.name = "useEffect"
    /\ searchState.searchString = "foo"
    /\ ResultLen >= 2
    /\ Index = 0
    /\ Len(Jumps) = 1
    /\ Jumps[1].args = <<searchState.searchResults[1]>>

\* C3: whenever the overlay goes from Visible to Hidden, the search state is
\* reset to its initial values.
C3_HideResets ==
    [][(showSearchAndReplace /\ ~showSearchAndReplace')
          => searchState' = DocumentedInitialState]_vars

\* C4: for a non-empty list of length L, onReplace(false) calls replace exactly
\* once, with the single match at the current index and the current
\* replaceString; at index L-1 the index is 0 afterwards, otherwise the index
\* is unchanged.  Nothing else of the search state changes.
C4_ReplaceOne ==
    [][(op'.name = "onReplace" /\ op'.arg = <<FALSE>> /\ ResultLen >= 1) =>
          /\ Len(Replaces') = 1
          /\ calls'[1] = Call("replace", <<<<At(searchState.searchResults, Index)>>,
                                         searchState.replaceString>>)
          /\ (Index \in 0 .. ResultLen - 1
                => calls'[1].args[1][1] = searchState.searchResults[Index + 1])
          /\ searchState' = IF Index = ResultLen - 1
                            THEN [searchState EXCEPT !.currentSearchResultIndex = 0]
                            ELSE searchState]_vars

\* The last of three matches has been replaced and the index is back at 0.
C4_Witness ==
    /\ op.name = "onReplace"
    /\ op.arg = <<FALSE>>
    /\ ResultLen = 3
    /\ Index = 0
    /\ Len(Replaces) = 1
    /\ Replaces[1].args[1] = <<searchState.searchResults[3]>>
    /\ Len(Jumps) = 1

\* C5: onReplace(true) calls replace exactly once, with the whole searchResults
\* list and the current replaceString, and changes nothing of the state,
\* whatever the index.
C5_ReplaceAll ==
    [][(op'.name = "onReplace" /\ op'.arg = <<TRUE>>) =>
          /\ calls' = <<Call("replace", <<searchState.searchResults,
                                         searchState.replaceString>>)>>
          /\ UNCHANGED <<searchState, optionsRef, showSearchAndReplace,
                         effectPending, pending, status>>]_vars

\* All of several matches have been replaced with the index at the last one.
C5_Witness ==
    /\ op.name = "onReplace"
    /\ op.arg = <<TRUE>>
    /\ ResultLen >= 2
    /\ Index = ResultLen - 1
    /\ Len(Replaces) = 1
    /\ Replaces[1].args[1] = searchState.searchResults

\* C6: reset() yields the state in which every field has its initial value.
C6_ResetRestores ==
    [][op'.name = "reset" => searchState' = DocumentedInitialState]_vars

\* reset has just cleared a state whose query or options were not the initial ones.
C6_Witness ==
    /\ op.name = "reset"
    /\ effectPending
    /\ searchState = DocumentedInitialState

\* C7: reset() and performSearch(isActiveSearch) never change the overlay's
\* visibility, and take effect on the search state whether or not the overlay
\* is visible: reset clears the state, performSearch stores the host's result.
C7_HandleKeepsVisibility ==
    [][/\ op'.name \in {"reset", "performSearch"}
            => showSearchAndReplace' = showSearchAndReplace
       /\ op'.name = "reset" => searchState' = DocumentedInitialState
       /\ (op'.name = "performSearch" /\ status' = "mounted")
            => searchState'.searchResults = Searches'[1].ret]_vars

\* reset has cleared a non-initial state while the overlay is hidden.
C7_Witness ==
    /\ op.name = "reset"
    /\ ~showSearchAndReplace
    /\ effectPending

\* C8: for a list of length N >= 1 and a starting index i in [0, N), N
\* consecutive moveResultIndex(+1) return the index to i.
C8_FullCycle ==
    (/\ ResultLen >= 1
     /\ moveRun.n = ResultLen
     /\ moveRun.start \in 0 .. ResultLen - 1)
        => Index = moveRun.start

\* Three consecutive moves over three results, started at the middle one.
C8_Witness ==
    /\ ResultLen = 3
    /\ moveRun.n = 3
    /\ moveRun.start = 1
    /\ Index = 1

\* C9: for a list of length L >= 1 with the index at 0, moveResultIndex(-1)
\* sets the index to L-1.
C9_BackFromFirst ==
    [][(op'.name = "moveResultIndex" /\ op'.arg = <<-1>> /\ ResultLen >= 1 /\ Index = 0)
          => Index' = ResultLen - 1]_vars

\* moveResultIndex(-1) has wrapped from the first of three results to the last.
C9_Witness ==
    /\ op.name = "moveResultIndex"
    /\ op.arg = <<-1>>
    /\ ResultLen = 3
    /\ Index = 2

\* C10: with no results, moveResultIndex(delta) leaves the search state
\* unchanged, does not invoke jumpToResult, and resolves its promise at once.
C10_MoveOnEmpty ==
    [][(op'.name = "moveResultIndex" /\ ResultLen = 0) =>
          /\ searchState' = searchState
          /\ calls' = <<Call("resolve", <<>>)>>
          /\ UNCHANGED <<optionsRef, showSearchAndReplace, effectPending, pending, status>>]_vars

\* moveResultIndex has resolved on an empty list for a query that matches nothing.
C10_Witness ==
    /\ op.name = "moveResultIndex"
    /\ op.arg \in {<<-3>>, <<3>>}
    /\ ResultLen = 0
    /\ searchState.searchString = "foo"
    /\ calls = <<Call("resolve", <<>>)>>
    /\ pending = NoPending

Focuses  == CallsOf("focusSearchBar")
Resolves == CallsOf("resolve")

\* C11: with no results, onReplace(all) leaves the search state unchanged and
\* hands the host's replace no non-empty list of targets, for both values of all.
C11_ReplaceOnEmpty ==
    [][(op'.name = "onReplace" /\ ResultLen = 0) =>
          /\ searchState' = searchState
          /\ \A i \in 1 .. Len(Replaces') : Replaces'[i].args[1] = <<>>]_vars

\* C12: performSearch(true) recomputes searchResults and invokes jumpToResult
\* once, with the entry of the new list at the current index; it does not call
\* focusSearchBar itself: that call is the continuation of the navigation and
\* runs only in the step in which an outstanding navigation resolves.
\* performSearch(false) recomputes searchResults and requests neither.
C12_ActiveSearchSequencing ==
    [][/\ (op'.name = "performSearch" /\ op'.arg = <<TRUE>> /\ status' = "mounted") =>
            /\ searchState' = [searchState EXCEPT !.searchResults = Searches'[1].ret]
            /\ Jumps' = <<Call("jumpToResult", <<At(searchState'.searchResults, Index)>>)>>
            /\ Focuses' = <<>>
            /\ pending' = [pending EXCEPT !["focusSearchBar"] = @ + 1]
       /\ (op'.name = "performSearch" /\ op'.arg = <<FALSE>>) =>
            /\ searchState' = [searchState EXCEPT !.searchResults = Searches'[1].ret]
            /\ Jumps' = <<>>
            /\ Focuses' = <<>>
            /\ pending' = pending
       /\ (Focuses' # <<>> /\ op'.name # "onKeyDown") =>
            /\ op' = [name |-> "then", arg |-> <<"focusSearchBar">>]
            /\ pending["focusSearchBar"] > 0
            /\ pending' = [pending EXCEPT !["focusSearchBar"] = @ - 1]]_vars

\* An active search has requested navigation to the second of several new
\* results, and the focus has not been returned yet.
C12_Witness ==
    /\ op = [name |-> "performSearch", arg |-> <<TRUE>>]
    /\ ResultLen >= 2
    /\ Index = 1
    /\ Jumps = <<Call("jumpToResult", <<searchState.searchResults[2]>>)>>
    /\ Focuses = <<>>
    /\ pending["focusSearchBar"] = 1

\* C13: the search combination while Hidden makes the overlay Visible and
\* requests no focus; while Visible it leaves it Visible and requests focus on
\* the bar; escape while Visible, or the bar's hide control, makes it Hidden;
\* escape while Hidden and every other key leave the visibility unchanged; and
\* nothing else changes the visibility.
C13_VisibilityMachine ==
    [][/\ (op'.name = "onKeyDown" /\ op'.arg = <<"Cmd-F">>) =>
            /\ showSearchAndReplace'
            /\ Focuses' = IF showSearchAndReplace
                          THEN <<Call("focusSearchBar", <<>>)>> ELSE <<>>
            /\ Len(CallsOf("SearchAndReplaceBar.focus")') = Len(Focuses')
       /\ (op'.name = "onKeyDown" /\ op'.arg = <<"esc">>) => ~showSearchAndReplace'
       /\ (op'.name = "onKeyDown" /\ op'.arg \notin {<<"Cmd-F">>, <<"esc">>}) =>
            showSearchAndReplace' = showSearchAndReplace
       /\ op'.name = "onHide" => (showSearchAndReplace /\ ~showSearchAndReplace')
       /\ showSearchAndReplace' # showSearchAndReplace =>
            op'.name \in {"onKeyDown", "onHide"}]_vars

\* The search combination has been pressed on the visible overlay, which
\* stayed visible and focused the bar.
C13_Witness ==
    /\ op = [name |-> "onKeyDown", arg |-> <<"Cmd-F">>]
    /\ showSearchAndReplace
    /\ Len(Focuses) = 1

\* C14: a key event has its propagation stopped and its default prevented
\* exactly when the overlay handled it: for the search combination always, for
\* escape only while Visible, for no other key.
C14_SuppressedIffHandled ==
    [][op'.name = "onKeyDown" =>
          LET handled == \/ op'.arg = <<"Cmd-F">>
                         \/ (op'.arg = <<"esc">> /\ showSearchAndReplace)
          IN  /\ Len(CallsOf("stopPropagation")') = (IF handled THEN 1 ELSE 0)
              /\ Len(CallsOf("preventDefault")') = (IF handled THEN 1 ELSE 0)]_vars

\* Escape has been pressed on the hidden overlay and was left alone.
C14_Witness ==
    /\ op = [name |-> "onKeyDown", arg |-> <<"esc">>]
    /\ ~showSearchAndReplace
    /\ calls = <<>>

\* The search state with the given result list and index.
StateWith(results, index) ==
    [initialSearchState EXCEPT !.searchResults = results,
                               !.currentSearchResultIndex = index]

\* C17: on a non-empty list moveResultIndex(delta) updates the index at once.
\* With a navigation callback it invokes it with searchResults[newIndex] and
\* its promise resolves only in the step in which that navigation resolves;
\* without one the promise resolves within the call.  The second part states
\* this of the updater the hook is constructed with, with and without the
\* callback, for every list, index inside it and delta.
C17_MoveCompletion ==
    /\ [][/\ (op'.name = "moveResultIndex" /\ ResultLen >= 1) =>
               /\ Index' = NewIndex(Index, op'.arg[1], ResultLen)
               /\ searchState' = [searchState EXCEPT !.currentSearchResultIndex = Index']
               /\ IF hasJump
                  THEN /\ calls' = <<Call("jumpToResult",
                                          <<At(searchState.searchResults, Index')>>)>>
                       /\ pending' = [pending EXCEPT !["resolve"] = @ + 1]
                  ELSE /\ calls' = <<Call("resolve", <<>>)>>
                       /\ pending' = pending
          /\ Resolves' # <<>> =>
               \/ /\ op' = [name |-> "then", arg |-> <<"resolve">>]
                  /\ pending["resolve"] > 0
                  /\ pending' = [pending EXCEPT !["resolve"] = @ - 1]
               \/ /\ op'.name \in {"moveResultIndex", "onReplace"}
                  /\ (ResultLen = 0 \/ ~hasJump)]_vars
    /\ [](op.name = "mount" =>
          \A results \in ResultLists \ {<<>>} :
          \A index \in 0 .. Len(results) - 1 :
          \A delta \in Deltas :
             LET r == moveResultIndexUpdater(StateWith(results, index), delta)
                 newIndex == r.state.currentSearchResultIndex
             IN  /\ newIndex = NewIndex(index, delta, Len(results))
                 /\ hasJump =>
                       /\ r.calls = <<Call("jumpToResult", <<At(results, newIndex)>>)>>
                       /\ r.cont = "resolve"
                 /\ ~hasJump =>
                       /\ r.calls = <<Call("resolve", <<>>)>>
                       /\ r.cont = "none")

\* moveResultIndex has moved to the last of three results and invoked the
\* navigation to it, whose resolution its promise awaits.
C17_Witness ==
    /\ op.name = "moveResultIndex"
    /\ ResultLen = 3
    /\ Index = 2
    /\ calls = <<Call("jumpToResult", <<searchState.searchResults[3]>>)>>
    /\ pending["resolve"] = 1

\* C18: for every delta and every non-empty list with the index in range,
\* moveResultIndex(delta) sets the index to the non-negative
\* (current + delta) mod resultCount.
C18_IndexIsModulo ==
    [][(op'.name = "moveResultIndex" /\ ResultLen >= 1 /\ Index \in 0 .. ResultLen - 1) =>
          /\ Index' = (Index + op'.arg[1]) % ResultLen
          /\ Index' \in 0 .. ResultLen - 1]_vars

\* C19: jumpToResult is only ever invoked with a match that is an element of
\* the result list just computed or currently held, never with an absent one.
C19_JumpsToAMatch ==
    \A i \in 1 .. Len(Jumps) :
        /\ Jumps[i].args[1] # Undefined
        /\ \E k \in 1 .. ResultLen : searchState.searchResults[k] = Jumps[i].args[1]

\* C20: when the host supplies no jumpToResult, no operation reaches an error
\* state, and after a search searchResults is what the host's search returned.
C20_OptionalJump ==
    ~hasJump =>
        /\ status = "mounted"
        /\ op.name \in {"useEffect", "performSearch"}
              => searchState.searchResults = Searches[1].ret

\* The characters a tag may consist of: a letter of either case or a digit.
Alphanumeric == {"a", "A", "7"}

\* C15: the validator accepts s if and only if s has 1 to 255 characters, each
\* a letter of either case or a digit, and s is not, exactly as written, among
\* the existing tag names.
C15_ValidatorAccepts ==
    [][op'.name = "isValidCheck" =>
          LET s == op'.arg[1]
              accepted == /\ StrLen(s) \in 1 .. 255
                          /\ \A i \in 1 .. Len(s) : s[i][1] \in Alphanumeric
                          /\ ~(\E t \in tags : t = s)
          IN  calls' = <<Call("return", <<accepted>>)>>]_vars

\* With the tag "a" existing, "A" has been accepted.
C15_Witness ==
    /\ op = [name |-> "isValidCheck", arg |-> <<Str("A")>>]
    /\ Str("a") \in tags
    /\ Str("A") \notin tags
    /\ calls = <<Call("return", <<TRUE>>)>>

\* What handleCreateTag does: one request for (tableId, tag), nothing else.
DispatchesOne ==
    op'.name = "handleCreateTag" =>
        /\ calls' = <<Call("createTableTag", <<tableId, op'.arg[1]>>)>>
        /\ creating' = Append(creating, <<tableId, op'.arg[1]>>)
        /\ UNCHANGED <<showSelect, tags, tableId>>

\* What the settling of a request does, whatever its outcome.
SettlingCollapses ==
    op'.name = "finally" =>
        /\ ~showSelect'
        /\ calls' = <<>>
        /\ Len(creating') = Len(creating) - 1
        /\ UNCHANGED <<tags, tableId>>

\* C16, as stated: handleCreateTag(tag) dispatches exactly one creation request
\* for (tableId, tag); the input stays shown while the request is pending and
\* collapses once it settles, whether it resolves or rejects; nothing else
\* changes.
C16_ShownWhilePending ==
    /\ [][DispatchesOne /\ SettlingCollapses]_vars
    /\ [](creating # <<>> => showSelect)

\* C16, amended: handleCreateTag(tag) dispatches exactly one creation request
\* for (tableId, tag); the input collapses only when a creation request
\* settles, and it does whenever one settles, this one or another, whether it
\* resolves or rejects; nothing else changes.
C16_CollapsesWhenOneSettles ==
    [][/\ DispatchesOne
       /\ SettlingCollapses
       /\ (showSelect /\ ~showSelect') => op'.name = "finally"]_vars

\* A request has been rejected and the input has collapsed, with another
\* request still pending.
C16_Witness ==
    /\ op.name = "finally"
    /\ op.arg[1] = "rejected"
    /\ ~showSelect
    /\ Len(creating) = 1

====
